---- MODULE Spec2Model ----
(***************************************************************************)
(* A model of the three-d rendering core: GLSL source composition for the   *)
(* phong lighting model and the binding of lights (phong.rs), Model         *)
(* construction (renderer/object/model.rs), the Texture2D resource and its  *)
(* render-target scope (core/texture/texture2d.rs), and the forward and     *)
(* deferred dispatch of InstancedModel through the context's program cache  *)
(* (renderer/object/instanced_model.rs).                                    *)
(*                                                                          *)
(* Source text is modelled as a sequence of tokens.  An identifier written  *)
(* by format!("name{}", i) is the token "name" followed by the decimal      *)
(* digits of i, one token per digit, as Display for usize writes them.      *)
(***************************************************************************)
EXTENDS Integers, Sequences, FiniteSets, TLC

VARIABLES
    \* ---- phong.rs: shader composition and light binding
    shaderArgs,     \* the arguments of the last phong_fragment_shader call
    shaderSource,   \* the source it returned
    shaderProgram,  \* the program linked from that source: the names it declares
    nextCall,       \* the call made next: a second composition, or bind_lights
    recomposed,     \* the source the second composition returned
    bound,          \* what bind_lights did on the program: [ok, uniforms, textures, blocks]
    \* ---- model.rs: Model::new
    cpuModel,       \* the CpuModel of the last Model::new call
    modelResult,    \* its result: Ok(gms) or Err(MissingMaterial(index, name))
    \* ---- texture2d.rs: Texture2D and the GPU context it lives on
    cpuTexture,     \* the CpuTexture the textures are made for: size, filter, type
    textures,       \* the Texture2D values, by GPU texture id
    requested,      \* per texture, the arguments it was created with
    nextTexture,    \* the id the context's next create_texture returns
    created,        \* the ids create_texture has returned
    deletes,        \* per id, how many delete_texture calls named it
    framebuffer,    \* the framebuffer binding of the context
    scopes,         \* the render-target write calls in progress, innermost last
    glCalls,        \* the GPU calls of the last operation, in order
    lastOp,         \* the last operation with its inputs and result
    \* ---- instanced_model.rs: InstancedModel and the context's program cache
    colorBuffer,    \* the instanced mesh's color buffer: "none", "opaque", "transparent"
    programs,       \* the program cache: its entries [key, handle]
    compiledFrom,   \* per program handle, the sources it was compiled from
    compiledBy,     \* per program handle, the pass of the call it was compiled for
    compiles,       \* per key, how often the compile step ran
    handed,         \* per key, the program handles requests for it obtained
    requests,       \* number of program requests so far
    lastRender      \* the last render call: pass, material, key, events, result

shaderVars == <<shaderArgs, shaderSource, shaderProgram, nextCall, recomposed, bound>>
modelVars == <<cpuModel, modelResult>>
textureVars == <<cpuTexture, textures, requested, nextTexture, created, deletes, framebuffer, scopes, glCalls, lastOp>>
renderVars == <<colorBuffer, programs, compiledFrom, compiledBy, compiles, handed, requests, lastRender>>
vars == <<shaderVars, modelVars, textureVars, renderVars>>

\* ------------------------------------------------------------------ bounds

\* Directional lights get the widest range, so that indices of two digits occur.
MaxDirectional == 11
MaxSpot == 2
MaxPoint == 2

\* ------------------------------------------------------------------ text

Digits == <<"0", "1", "2", "3", "4", "5", "6", "7", "8", "9">>

DigitSet == {Digits[k] : k \in 1..10}

\* Display for usize, as used by format!("{}", i) and by to_string().
RECURSIVE to_string(_)
to_string(n) ==
    IF n < 10 THEN <<Digits[n + 1]>>
    ELSE to_string(n \div 10) \o <<Digits[(n % 10) + 1]>>

\* ------------------------------------------------------------------ phong.rs

\* The three fixed fragments phong_fragment_shader includes.
shared_frag == <<"core/shared.frag">>

light_shared_frag == <<"phong/shaders/light_shared.frag">>

\* lighting.frag declares the one ambient-color uniform and adds it outside the lights.
lighting_frag == <<"uniform", "vec3", "ambientColor", ";", "phong/shaders/lighting.frag">>

SurfaceArgs ==
    <<",", "surface_color", ",", "position", ",", "normal", ",", "diffuse_intensity",
      ",", "specular_intensity", ",", "specular_power">>

\* The declarations of light i written with the index i + 1.
dir_uniform_item_shifted(i) ==
    <<"\n", "uniform", "sampler2D", "directionalShadowMap">> \o to_string(i + 1) \o
    <<";", "\n", "layout", "(std140)", "uniform", "DirectionalLightUniform">> \o to_string(i + 1) \o
    <<"\n", "{", "\n", "DirectionalLight", "directionalLight">> \o to_string(i + 1) \o
    <<";", "\n", "}", ";">>

dir_uniform_item(i) ==
    <<"\n", "uniform", "sampler2D", "directionalShadowMap">> \o to_string(i) \o
    <<";", "\n", "layout", "(std140)", "uniform", "DirectionalLightUniform">> \o to_string(i) \o
    <<"\n", "{", "\n", "DirectionalLight", "directionalLight">> \o to_string(i) \o
    <<";", "\n", "}", ";">>

dir_fun_item(i) ==
    <<"\n", "color.rgb", "+=", "calculate_directional_light", "(", "directionalLight">>
    \o to_string(i) \o SurfaceArgs \o
    <<",", "directionalShadowMap">> \o to_string(i) \o <<")", ";">>

spot_uniform_item(i) ==
    <<"\n", "uniform", "sampler2D", "spotShadowMap">> \o to_string(i) \o
    <<";", "\n", "layout", "(std140)", "uniform", "SpotLightUniform">> \o to_string(i) \o
    <<"\n", "{", "\n", "SpotLight", "spotLight">> \o to_string(i) \o
    <<";", "\n", "}", ";">>

spot_fun_item(i) ==
    <<"\n", "color.rgb", "+=", "calculate_spot_light", "(", "spotLight">>
    \o to_string(i) \o SurfaceArgs \o
    <<",", "spotShadowMap">> \o to_string(i) \o <<")", ";">>

point_uniform_item(i) ==
    <<"\n", "layout", "(std140)", "uniform", "PointLightUniform">> \o to_string(i) \o
    <<"\n", "{", "\n", "PointLight", "pointLight">> \o to_string(i) \o
    <<";", "\n", "}", ";">>

point_fun_item(i) ==
    <<"\n", "color.rgb", "+=", "calculate_point_light", "(", "pointLight">>
    \o to_string(i) \o SurfaceArgs \o <<")", ";">>

\* for i in 0..n { s.push_str(item(i)) }, for each of the six strings.
RECURSIVE dir_uniform(_)
dir_uniform(n) == IF n = 0 THEN <<>> ELSE dir_uniform(n - 1) \o dir_uniform_item(n - 1)

RECURSIVE dir_fun(_)
dir_fun(n) == IF n = 0 THEN <<>> ELSE dir_fun(n - 1) \o dir_fun_item(n - 1)

RECURSIVE spot_uniform(_)
spot_uniform(n) == IF n = 0 THEN <<>> ELSE spot_uniform(n - 1) \o spot_uniform_item(n - 1)

RECURSIVE spot_fun(_)
spot_fun(n) == IF n = 0 THEN <<>> ELSE spot_fun(n - 1) \o spot_fun_item(n - 1)

RECURSIVE point_uniform(_)
point_uniform(n) == IF n = 0 THEN <<>> ELSE point_uniform(n - 1) \o point_uniform_item(n - 1)

RECURSIVE point_fun(_)
point_fun(n) == IF n = 0 THEN <<>> ELSE point_fun(n - 1) \o point_fun_item(n - 1)

\* The inner format! with the spot calls written before the directional ones.
lights_block_spot_first(directional_lights, spot_lights, point_lights) ==
    <<"\n">> \o dir_uniform(directional_lights) \o <<"// Directional lights", "\n">>
    \o spot_uniform(spot_lights) \o <<"// Spot lights", "\n">>
    \o point_uniform(point_lights) \o <<"// Point lights", "\n", "\n">>
    \o <<"void", "calculate_lighting", "(", "inout", "vec4", "color", ",", "vec3",
         "surface_color", ",", "vec3", "position", ",", "vec3", "normal", ",", "\n",
         "float", "diffuse_intensity", ",", "float", "specular_intensity", ",",
         "float", "specular_power", ")", "\n", "{", "\n">>
    \o spot_fun(spot_lights) \o <<"// Spot lights", "\n">>
    \o dir_fun(directional_lights) \o <<"// Directional lights", "\n">>
    \o point_fun(point_lights) \o <<"// Point lights", "\n", "}", "\n">>

\* The inner format!: the declarations, then calculate_lighting with the calls.
lights_block(directional_lights, spot_lights, point_lights) ==
    <<"\n">> \o dir_uniform(directional_lights) \o <<"// Directional lights", "\n">>
    \o spot_uniform(spot_lights) \o <<"// Spot lights", "\n">>
    \o point_uniform(point_lights) \o <<"// Point lights", "\n", "\n">>
    \o <<"void", "calculate_lighting", "(", "inout", "vec4", "color", ",", "vec3",
         "surface_color", ",", "vec3", "position", ",", "vec3", "normal", ",", "\n",
         "float", "diffuse_intensity", ",", "float", "specular_intensity", ",",
         "float", "specular_power", ")", "\n", "{", "\n">>
    \o dir_fun(directional_lights) \o <<"// Directional lights", "\n">>
    \o spot_fun(spot_lights) \o <<"// Spot lights", "\n">>
    \o point_fun(point_lights) \o <<"// Point lights", "\n", "}", "\n">>

\* The composition with the spot-light count used for the point lights too.
phong_fragment_shader_no_point(shader_addition, directional_lights, spot_lights, point_lights) ==
    shared_frag \o <<"\n">> \o light_shared_frag \o <<"\n">>
    \o lights_block(directional_lights, spot_lights, spot_lights) \o <<"\n">>
    \o shader_addition \o <<"\n">> \o lighting_frag

\* format!("{}\n{}\n{}\n{}\n{}", shared, light_shared, block, shader_addition, lighting)
phong_fragment_shader(shader_addition, directional_lights, spot_lights, point_lights) ==
    shared_frag \o <<"\n">> \o light_shared_frag \o <<"\n">>
    \o lights_block(directional_lights, spot_lights, point_lights) \o <<"\n">>
    \o shader_addition \o <<"\n">> \o lighting_frag

\* ------------------------------------------------------------------ reading GLSL

\* The digit tokens of s from position p on.
RECURSIVE digits_at(_, _)
digits_at(s, p) ==
    IF p <= Len(s) /\ s[p] \in DigitSet THEN <<s[p]>> \o digits_at(s, p + 1) ELSE <<>>

\* The identifier that starts at position p: a name and the digits that follow it.
identifier_at(s, p) == <<s[p]>> \o digits_at(s, p + 1)

starts_with(s, p, keyword) ==
    /\ s[p] = keyword[1]
    /\ p + Len(keyword) <= Len(s)
    /\ SubSeq(s, p, p + Len(keyword) - 1) = keyword

\* The positions of s where keyword starts with an identifier after it.
occurrences(s, keyword) == {p \in 1..Len(s) : starts_with(s, p, keyword)}

\* The identifiers that follow the occurrences of keyword in s, by position.
declared(s, keyword) ==
    {[at |-> p, name |-> identifier_at(s, p + Len(keyword))] : p \in occurrences(s, keyword)}

\* What a program linked from the source declares: its sampler uniforms, its
\* std140 uniform blocks and its vec3 uniforms.
sampler_declarations(source) == declared(source, <<"uniform", "sampler2D">>)

block_declarations(source) == declared(source, <<"layout", "(std140)", "uniform">>)

vec3_declarations(source) == declared(source, <<"uniform", "vec3">>)

Names(declarations) == {d.name : d \in declarations}

\* Program::from_source, as far as binding goes: the names the linked program has.
from_source(fragment_shader_source) ==
    [samplers |-> Names(sampler_declarations(fragment_shader_source)),
     blocks |-> Names(block_declarations(fragment_shader_source)),
     uniforms |-> Names(vec3_declarations(fragment_shader_source))]

NoProgram == [samplers |-> {}, blocks |-> {}, uniforms |-> {}]

\* ------------------------------------------------------------------ phong.rs: bind_lights

\* Program::use_uniform_vec3 and Program::use_texture fail for a name the program
\* does not declare; Program::use_uniform_block returns nothing.
use_uniform_vec3(effect, st, name, value) ==
    IF ~st.ok THEN st
    ELSE IF name \notin effect.uniforms THEN [st EXCEPT !.ok = FALSE]
    ELSE [st EXCEPT !.uniforms = Append(@, [name |-> name, value |-> value])]

use_texture(effect, st, light, name) ==
    IF ~st.ok THEN st
    ELSE IF name \notin effect.samplers THEN [st EXCEPT !.ok = FALSE]
    ELSE [st EXCEPT !.textures = Append(@, [light |-> light, name |-> name])]

use_uniform_block(effect, st, light, name) ==
    IF ~st.ok THEN st
    ELSE [st EXCEPT !.blocks = Append(@, [light |-> light, name |-> name])]

\* The names bind_lights formats for the light at index i of its list.
directional_shadow_map(i) == <<"directionalShadowMap">> \o to_string(i)

directional_light_uniform(i) == <<"DirectionalLightUniform">> \o to_string(i)

spot_shadow_map_shifted(i) == <<"spotShadowMap">> \o to_string(i + 1)

spot_shadow_map(i) == <<"spotShadowMap">> \o to_string(i)

spot_light_uniform(i) == <<"SpotLightUniform">> \o to_string(i)

point_light_uniform(i) == <<"PointLightUniform">> \o to_string(i)

\* for i in 0..directional_lights.len() { use_texture(..)?; use_uniform_block(..) }
RECURSIVE bind_directional(_, _, _, _)
bind_directional(effect, st, i, n) ==
    IF i >= n \/ ~st.ok THEN st
    ELSE bind_directional(effect,
            use_uniform_block(effect,
                use_texture(effect, st, <<"directional", i>>, directional_shadow_map(i)),
                <<"directional", i>>, directional_light_uniform(i)),
            i + 1, n)

RECURSIVE bind_spot(_, _, _, _)
bind_spot(effect, st, i, n) ==
    IF i >= n \/ ~st.ok THEN st
    ELSE bind_spot(effect,
            use_uniform_block(effect,
                use_texture(effect, st, <<"spot", i>>, spot_shadow_map(i)),
                <<"spot", i>>, spot_light_uniform(i)),
            i + 1, n)

RECURSIVE bind_point(_, _, _, _)
bind_point(effect, st, i, n) ==
    IF i >= n \/ ~st.ok THEN st
    ELSE bind_point(effect,
            use_uniform_block(effect, st, <<"point", i>>, point_light_uniform(i)),
            i + 1, n)

NothingBound == [ok |-> TRUE, uniforms |-> <<>>, textures |-> <<>>, blocks |-> <<>>]

NotCalled == [called |-> FALSE, result |-> NothingBound]

\* ambient_light is "None" or "Some"; the three lists are given by their lengths,
\* the i-th light of a list being the light <<kind, i>>.
bind_lights(effect, ambient_light, directional_lights, spot_lights, point_lights) ==
    LET ambient == use_uniform_vec3(effect, NothingBound, <<"ambientColor">>,
                       IF ambient_light = "Some" THEN "color * intensity" ELSE "vec3(0, 0, 0)")
        dir == bind_directional(effect, ambient, 0, directional_lights)
        spot == bind_spot(effect, dir, 0, spot_lights)
    IN  bind_point(effect, spot, 0, point_lights)

\* ------------------------------------------------------------------ phong.rs: the calls

\* The material bodies composition is called with: one declares a sampler of its own.
ShaderAdditions ==
    { <<"material/color.frag">>,
      <<"uniform", "sampler2D", "albedoTexture", ";", "material/texture.frag">> }

LightCounts ==
    [directional_lights : 0..MaxDirectional, spot_lights : 0..MaxSpot,
     point_lights : 0..MaxPoint]

NoLights == [directional_lights |-> 0, spot_lights |-> 0, point_lights |-> 0]

NoShaderArgs == [shader_addition |-> <<>>, lights |-> NoLights]

\* The count tuples that equal c or differ from it in one of the three counts.
Near(c) ==
    {d \in LightCounts :
        Cardinality({k \in {"directional_lights", "spot_lights", "point_lights"} :
                        d[k] # c[k]}) <= 1}

\* The calls that follow a composition: a second composition with the same
\* material body, or bind_lights with an ambient light or none; either with light
\* counts that are those of the composition or differ from them in one place.
NextCalls(lights) ==
    [call : {"phong_fragment_shader"}, ambient_light : {"None"}, lights : Near(lights)]
    \cup [call : {"bind_lights"}, ambient_light : {"None", "Some"}, lights : Near(lights)]

\* No call yet, and none to come.
ShaderIdle ==
    /\ shaderArgs = NoShaderArgs
    /\ shaderSource = <<>>
    /\ shaderProgram = NoProgram
    /\ nextCall = [call |-> "none", ambient_light |-> "None", lights |-> NoLights]
    /\ recomposed = <<>>
    /\ bound = NotCalled

\* A material body and the lights of a scene, with nothing composed yet.
ShaderInit ==
    /\ shaderArgs \in [shader_addition : ShaderAdditions, lights : LightCounts]
    /\ shaderSource = <<>>
    /\ shaderProgram = NoProgram
    /\ nextCall \in NextCalls(shaderArgs.lights)
    /\ recomposed = <<>>
    /\ bound = NotCalled

\* The call of phong_fragment_shader for the material and the lights; its result
\* is the fragment source of the program the lights are then bound on.
Compose ==
    /\ shaderArgs # NoShaderArgs
    /\ shaderSource = <<>>
    /\ shaderSource' = phong_fragment_shader(shaderArgs.shader_addition,
                           shaderArgs.lights.directional_lights,
                           shaderArgs.lights.spot_lights, shaderArgs.lights.point_lights)
    /\ shaderProgram' = from_source(shaderSource')
    /\ UNCHANGED <<shaderArgs, nextCall, recomposed, bound>>
    /\ UNCHANGED <<modelVars, textureVars, renderVars>>

\* The second call of phong_fragment_shader.
ComposeAgain ==
    /\ shaderSource # <<>>
    /\ nextCall.call = "phong_fragment_shader"
    /\ recomposed = <<>>
    /\ recomposed' = phong_fragment_shader(shaderArgs.shader_addition,
                         nextCall.lights.directional_lights,
                         nextCall.lights.spot_lights, nextCall.lights.point_lights)
    /\ UNCHANGED <<shaderArgs, shaderSource, shaderProgram, nextCall, bound>>
    /\ UNCHANGED <<modelVars, textureVars, renderVars>>

\* The call of bind_lights on the program linked from the composed source.
BindLights ==
    /\ shaderSource # <<>>
    /\ nextCall.call = "bind_lights"
    /\ ~bound.called
    /\ bound' = [called |-> TRUE,
                 result |-> bind_lights(shaderProgram, nextCall.ambient_light,
                                nextCall.lights.directional_lights,
                                nextCall.lights.spot_lights, nextCall.lights.point_lights)]
    /\ UNCHANGED <<shaderArgs, shaderSource, shaderProgram, nextCall, recomposed>>
    /\ UNCHANGED <<modelVars, textureVars, renderVars>>

ShaderNext == Compose \/ ComposeAgain \/ BindLights

\* ------------------------------------------------------------------ model.rs

MaxParts == 2
MaxMaterials == 2
\* The largest material index a part may carry: two digits, and out of range.
MaxMaterialIndex == 11

PartNames == {"body", "wheel"}

\* A part of a CpuModel: its name and its material_index, None or Some(index).
Parts ==
    [name : PartNames,
     material_index : {[some |-> FALSE, index |-> 0]}
                      \cup [some : {TRUE}, index : 0..MaxMaterialIndex]]

PartLists == UNION {[1..n -> Parts] : n \in 0..MaxParts}

\* cpu_model.materials.iter().map(|m| M::from_cpu_material(context, m)).collect()
from_cpu_materials(n) == [j \in 1..n |-> <<"from_cpu_material", j - 1>>]

\* A get that falls back to the default material when the index is out of range.
get_or_default(materials, material_index) ==
    IF material_index < Len(materials)
    THEN [some |-> TRUE, value |-> materials[material_index + 1]]
    ELSE [some |-> TRUE, value |-> <<"default">>]

\* materials.get(material_index): None when the index is out of range.
get(materials, material_index) ==
    IF material_index < Len(materials)
    THEN [some |-> TRUE, value |-> materials[material_index + 1]]
    ELSE [some |-> FALSE, value |-> <<>>]

Ok(gms) == [ok |-> TRUE, gms |-> gms, error |-> <<>>]

MissingMaterial(index, name) ==
    [ok |-> FALSE, gms |-> <<>>, error |-> <<"MissingMaterial", index, name>>]

\* The loop of Model::new from part k on, gms holding the pairs pushed so far; the
\* ? on ok_or returns the error at the first part whose index get() does not find.
RECURSIVE new_parts(_, _, _, _)
new_parts(materials, parts, k, gms) ==
    IF k > Len(parts) THEN Ok(gms)
    ELSE LET part == parts[k]
             found == get(materials, part.material_index.index)
         IN  IF part.material_index.some
             THEN IF found.some
                  THEN new_parts(materials, parts, k + 1,
                           Append(gms, [geometry |-> <<"Mesh", k>>, material |-> found.value]))
                  ELSE MissingMaterial(to_string(part.material_index.index), part.name)
             ELSE new_parts(materials, parts, k + 1,
                      Append(gms, [geometry |-> <<"Mesh", k>>, material |-> <<"default">>]))

Model_new(cpu_model) ==
    new_parts(from_cpu_materials(cpu_model.materials), cpu_model.parts, 1, <<>>)

\* No CpuModel loaded.
ModelIdle ==
    /\ cpuModel = [materials |-> 0, parts |-> <<>>]
    /\ modelResult = [called |-> FALSE, result |-> Ok(<<>>)]

\* A CpuModel as the loader hands it over: a number of materials and the parts.
ModelInit ==
    /\ cpuModel \in [materials : 0..MaxMaterials, parts : PartLists]
    /\ modelResult = [called |-> FALSE, result |-> Ok(<<>>)]

\* The call of Model::new on the CpuModel.
NewModel ==
    /\ ~modelResult.called
    /\ modelResult' = [called |-> TRUE, result |-> Model_new(cpuModel)]
    /\ UNCHANGED cpuModel
    /\ UNCHANGED <<shaderVars, textureVars, renderVars>>

ModelNext == NewModel

\* ------------------------------------------------------------------ texture2d.rs

\* Textures created over a run, each with an id of its own.
MaxTextures == 3
\* Width and height range over 1..MaxDim.
MaxDim == 2
\* Data lengths range over 0..MaxLen: one more than the largest texture has pixels.
MaxLen == 5

TextureIds == 1..MaxTextures

\* Three of the TextureData variants of Texture2D::new, naming the element types
\* u8, [u8; 4] and f32.
TextureDataTypes == {"RU8", "RgbaU8", "RF32"}

\* std::mem::size_of::<T>()
size_of(T) == IF T = "RU8" THEN 1 ELSE 4

MipMapFilters == {"None", "Some(Linear)"}

RECURSIVE floor_log2(_)
floor_log2(n) == IF n < 2 THEN 0 ELSE 1 + floor_log2(n \div 2)

max(a, b) == IF a >= b THEN a ELSE b

\* One level without a mip filter, else floor(log2(max(width, height))) + 1.
calculate_number_of_mip_maps(mip_map_filter, width, height) ==
    IF mip_map_filter = "None" THEN 1 ELSE floor_log2(max(width, height)) + 1

\* The byte length of the data against that of the texture.
check_data_length(width, height, depth, data_byte_size, T, len) ==
    width * height * depth * data_byte_size = len * size_of(T)

\* A GPU call: its name, the texture id it is about, its other arguments.
Call(name, id, args) == [call |-> name, id |-> id, args |-> args]

NoTexture ==
    [state |-> "none", width |-> 0, height |-> 0, number_of_mip_maps |-> 0,
     data_byte_size |-> 0]

\* Texture2D::bind
bind(id) == <<Call("bind_texture", id, <<>>)>>

\* A generate_mip_maps that does not look at the mip count.
generate_mip_maps_always(texture, id) ==
    bind(id) \o <<Call("generate_mipmap", id, <<>>)>>

\* Texture2D::generate_mip_maps
generate_mip_maps(texture, id) ==
    IF texture.number_of_mip_maps > 1
    THEN bind(id) \o <<Call("generate_mipmap", id, <<>>)>>
    ELSE <<>>

\* Drop for Texture2D
drop(id) == <<Call("delete_texture", id, <<>>)>>

Failed(error, calls) ==
    [ok |-> FALSE, error |-> error, texture |-> NoTexture, calls |-> calls]

\* new_empty with the Texture2D value built only after the calls that can fail:
\* an early return then drops nothing.
new_empty_built_last(id, width, height, mip_map_filter, T, failure) ==
    IF failure = "generate" THEN Failed("ContextError", <<>>)
    ELSE
    LET number_of_mip_maps == calculate_number_of_mip_maps(mip_map_filter, width, height)
        texture == [state |-> "live", width |-> width, height |-> height,
                    number_of_mip_maps |-> number_of_mip_maps,
                    data_byte_size |-> size_of(T)]
        made == <<Call("create_texture", id, <<>>)>> \o bind(id)
                \o <<Call("set_parameters", id,
                          <<IF number_of_mip_maps = 1 THEN "None" ELSE mip_map_filter>>)>>
        stored == <<Call("tex_storage_2d", id, <<number_of_mip_maps, T, width, height>>)>>
                  \o generate_mip_maps(texture, id)
    IN  IF failure = "set_parameters" THEN Failed("ContextError", made)
        ELSE IF failure = "error_check" THEN Failed("ContextError", made \o stored)
        ELSE [ok |-> TRUE, error |-> "", texture |-> texture, calls |-> made \o stored]

\* new_empty storing the mip count of the width alone.
new_empty_width_only(id, width, height, mip_map_filter, T, failure) ==
    IF failure = "generate" THEN Failed("ContextError", <<>>)
    ELSE
    LET number_of_mip_maps == calculate_number_of_mip_maps(mip_map_filter, width, width)
        texture == [state |-> "live", width |-> width, height |-> height,
                    number_of_mip_maps |-> number_of_mip_maps,
                    data_byte_size |-> size_of(T)]
        made == <<Call("create_texture", id, <<>>)>> \o bind(id)
                \o <<Call("set_parameters", id,
                          <<IF number_of_mip_maps = 1 THEN "None" ELSE mip_map_filter>>)>>
        stored == <<Call("tex_storage_2d", id, <<number_of_mip_maps, T, width, height>>)>>
                  \o generate_mip_maps(texture, id)
    IN  IF failure = "set_parameters" THEN Failed("ContextError", made \o drop(id))
        ELSE IF failure = "error_check" THEN Failed("ContextError", made \o stored \o drop(id))
        ELSE [ok |-> TRUE, error |-> "", texture |-> texture, calls |-> made \o stored]

\* Texture2D::new_empty::<T>, id being the id generate returns.  failure names the
\* call that fails, if one does: generate, set_parameters or the last error_check.
\* The Texture2D value exists from line 72 on, so a later early return drops it.
new_empty(id, width, height, mip_map_filter, T, failure) ==
    IF failure = "generate" THEN Failed("ContextError", <<>>)
    ELSE
    LET number_of_mip_maps == calculate_number_of_mip_maps(mip_map_filter, width, height)
        texture == [state |-> "live", width |-> width, height |-> height,
                    number_of_mip_maps |-> number_of_mip_maps,
                    data_byte_size |-> size_of(T)]
        made == <<Call("create_texture", id, <<>>)>> \o bind(id)
                \o <<Call("set_parameters", id,
                          <<IF number_of_mip_maps = 1 THEN "None" ELSE mip_map_filter>>)>>
        stored == <<Call("tex_storage_2d", id, <<number_of_mip_maps, T, width, height>>)>>
                  \o generate_mip_maps(texture, id)
    IN  IF failure = "set_parameters" THEN Failed("ContextError", made \o drop(id))
        ELSE IF failure = "error_check" THEN Failed("ContextError", made \o stored \o drop(id))
        ELSE [ok |-> TRUE, error |-> "", texture |-> texture, calls |-> made \o stored]

\* fill that uploads before it checks the length.
fill_checked_last(texture, id, T, len, failure) ==
    LET upload == bind(id)
                  \o <<Call("tex_sub_image_2d", id,
                            <<0, 0, 0, texture.width, texture.height, T, len>>)>>
                  \o generate_mip_maps(texture, id)
    IN  IF ~check_data_length(texture.width, texture.height, 1, texture.data_byte_size, T, len)
        THEN Failed("InvalidTextureLength", upload)
        ELSE IF failure = "error_check" THEN Failed("ContextError", upload)
        ELSE [ok |-> TRUE, error |-> "", texture |-> texture, calls |-> upload]

\* Texture2D::fill::<T>(&mut self, data) with data.len() = len.
fill(texture, id, T, len, failure) ==
    IF ~check_data_length(texture.width, texture.height, 1, texture.data_byte_size, T, len)
    THEN Failed("InvalidTextureLength", <<>>)
    ELSE
    LET upload == bind(id)
                  \o <<Call("tex_sub_image_2d", id,
                            <<0, 0, 0, texture.width, texture.height, T, len>>)>>
                  \o generate_mip_maps(texture, id)
    IN  IF failure = "error_check" THEN Failed("ContextError", upload)
        ELSE [ok |-> TRUE, error |-> "", texture |-> texture, calls |-> upload]

\* Texture2D::new_with_data::<T>: new_empty::<T>(..)? and then texture.fill(data)?,
\* the texture being dropped when fill returns an error.
new_with_data(id, width, height, mip_map_filter, T, len, failure) ==
    LET empty == new_empty(id, width, height, mip_map_filter, T, failure)
        filled == fill(empty.texture, id, T, len,
                       IF failure = "fill_error_check" THEN "error_check" ELSE "none")
    IN  IF ~empty.ok THEN empty
        ELSE IF ~filled.ok
             THEN Failed(filled.error, empty.calls \o filled.calls \o drop(id))
             ELSE [ok |-> TRUE, error |-> "", texture |-> empty.texture,
                   calls |-> empty.calls \o filled.calls]

\* The number of calls named name on texture id among calls.
Count(calls, name, id) ==
    Cardinality({k \in 1..Len(calls) : calls[k].call = name /\ calls[k].id = id})

\* A framebuffer binding: the texture bound as color attachment and the depth
\* attachment; the screen is the default framebuffer.
Binding(color, depth) == [color |-> color, depth |-> depth]

Screen == Binding(0, "Screen")

NoOp == [op |-> "none", id |-> 0, T |-> "", len |-> 0, failure |-> "", ok |-> TRUE,
         error |-> "", before |-> NoTexture, bindingBefore |-> Screen]

NoRequest == [width |-> 0, height |-> 0, mip_map_filter |-> "None", T |-> ""]

CpuTextures ==
    [width : 1..MaxDim, height : 1..MaxDim, mip_map_filter : MipMapFilters,
     T : TextureDataTypes]

\* The context after construction: no texture, the screen bound.
ContextInit ==
    /\ textures = [id \in TextureIds |-> NoTexture]
    /\ requested = [id \in TextureIds |-> NoRequest]
    /\ nextTexture = 1
    /\ created = {}
    /\ deletes = [id \in TextureIds |-> 0]
    /\ framebuffer = Screen
    /\ scopes = <<>>
    /\ glCalls = <<>>
    /\ lastOp = NoOp

\* A CpuTexture of any size, mip filter and element type, and a new context.
TextureInit == cpuTexture \in CpuTextures /\ ContextInit

\* A CpuTexture of one pixel, and a new context.
TargetInit ==
    /\ cpuTexture = [width |-> 1, height |-> 1, mip_map_filter |-> "None", T |-> "RgbaU8"]
    /\ ContextInit

\* The textures a render-target write in progress borrows mutably.
Borrowed == {scopes[k].target : k \in 1..Len(scopes)}

Live == {id \in TextureIds : textures[id].state = "live"}

\* The effect on the context of the calls an operation made.
Issue(calls) ==
    /\ glCalls' = calls
    /\ deletes' = [id \in TextureIds |-> deletes[id] + Count(calls, "delete_texture", id)]
    /\ created' = created \cup {id \in TextureIds : Count(calls, "create_texture", id) > 0}
    /\ nextTexture' = IF Count(calls, "create_texture", nextTexture) > 0
                      THEN nextTexture + 1 ELSE nextTexture

\* A call of Texture2D::new_empty::<T>.
NewEmpty(width, height, mip_map_filter, T, failure) ==
    /\ nextTexture \in TextureIds
    /\ LET id == nextTexture
           out == new_empty(id, width, height, mip_map_filter, T, failure)
       IN  /\ Issue(out.calls)
           /\ textures' = IF out.ok THEN [textures EXCEPT ![id] = out.texture] ELSE textures
           /\ requested' = IF out.ok
                           THEN [requested EXCEPT ![id] =
                                    [width |-> width, height |-> height,
                                     mip_map_filter |-> mip_map_filter, T |-> T]]
                           ELSE requested
           /\ lastOp' = [NoOp EXCEPT !.op = "new_empty", !.id = id,
                                     !.failure = failure, !.ok = out.ok, !.error = out.error,
                                     !.bindingBefore = framebuffer]
    /\ UNCHANGED <<cpuTexture, framebuffer, scopes>>
    /\ UNCHANGED <<shaderVars, modelVars, renderVars>>

\* A call of Texture2D::new on a CpuTexture whose data is of variant T and length len.
New(width, height, mip_map_filter, T, len, failure) ==
    /\ nextTexture \in TextureIds
    /\ LET id == nextTexture
           out == new_with_data(id, width, height, mip_map_filter, T, len, failure)
       IN  /\ Issue(out.calls)
           /\ textures' = IF out.ok THEN [textures EXCEPT ![id] = out.texture] ELSE textures
           /\ requested' = IF out.ok
                           THEN [requested EXCEPT ![id] =
                                    [width |-> width, height |-> height,
                                     mip_map_filter |-> mip_map_filter, T |-> T]]
                           ELSE requested
           /\ lastOp' = [NoOp EXCEPT !.op = "new", !.id = id,
                                     !.failure = failure, !.ok = out.ok, !.error = out.error,
                                     !.bindingBefore = framebuffer]
    /\ UNCHANGED <<cpuTexture, framebuffer, scopes>>
    /\ UNCHANGED <<shaderVars, modelVars, renderVars>>

\* A call of fill::<T> on texture id with data of length len.  A failure of the
\* error check is a case only when the call gets that far.
Fill(id, T, len, failure) ==
    /\ id \in Live \ Borrowed
    /\ failure = "error_check" =>
           check_data_length(textures[id].width, textures[id].height, 1,
                             textures[id].data_byte_size, T, len)
    /\ LET out == fill(textures[id], id, T, len, failure)
       IN  /\ Issue(out.calls)
           /\ lastOp' = [NoOp EXCEPT !.op = "fill", !.id = id, !.T = T, !.len = len,
                                     !.failure = failure, !.ok = out.ok, !.error = out.error,
                                     !.before = textures[id],
                                     !.bindingBefore = framebuffer]
    /\ UNCHANGED <<cpuTexture, textures, requested, framebuffer, scopes>>
    /\ UNCHANGED <<shaderVars, modelVars, renderVars>>

\* The Texture2D value goes out of scope.
Drop(id) ==
    /\ id \in Live \ Borrowed
    /\ Issue(drop(id))
    /\ textures' = [textures EXCEPT ![id] = NoTexture]
    /\ requested' = [requested EXCEPT ![id] = NoRequest]
    /\ lastOp' = [NoOp EXCEPT !.op = "drop", !.id = id, !.bindingBefore = framebuffer]
    /\ UNCHANGED <<cpuTexture, framebuffer, scopes>>
    /\ UNCHANGED <<shaderVars, modelVars, renderVars>>

\* RenderTarget::write, up to the callback: the binding it snapshots to restore
\* later, and the binding it makes.
RenderTarget_snapshot(binding) == binding

RenderTarget_bind(color, depth) == Binding(color, depth)

\* RenderTarget::write, after the callback: the binding it leaves, whatever the
\* callback returned.
RenderTarget_restore(snapshot, binding, result) == snapshot

\* A write that binds the texture's framebuffer by hand and returns at the
\* callback's error.
write_bound_by_hand(snapshot, binding, result) ==
    IF result = "Ok" THEN snapshot ELSE binding

\* A write that binds the screen's framebuffer when it is done.
write_unbinds_to_screen(snapshot, binding, result) == Screen

\* Texture2D::write, after the callback: all of it is RenderTarget::write on the
\* target made of this texture, so it leaves what that leaves.
write(snapshot, binding, result) == RenderTarget_restore(snapshot, binding, result)

ClearStates == {"none", "color"}

\* Texture2D::write is called: RenderTarget::new(context, ColorTarget::Texture2D
\* { texture: self }, DepthTarget::None)?, then RenderTarget::write binds the
\* target, clears it and calls render.
WriteBegin(id, clear_state, failure) ==
    /\ id \in Live \ Borrowed
    /\ IF failure = "new"
       THEN /\ Issue(<<>>)
            /\ lastOp' = [NoOp EXCEPT !.op = "write", !.id = id, !.failure = failure,
                                      !.ok = FALSE, !.error = "ContextError",
                                      !.bindingBefore = framebuffer]
            /\ UNCHANGED <<framebuffer, scopes>>
       ELSE /\ Issue(<<Call("bind_framebuffer", id, <<"None">>),
                       Call("clear", id, <<clear_state>>)>>)
            /\ framebuffer' = RenderTarget_bind(id, "None")
            /\ scopes' = Append(scopes, [target |-> id,
                                         previous |-> RenderTarget_snapshot(framebuffer),
                                         before |-> framebuffer])
            /\ lastOp' = [NoOp EXCEPT !.op = "render", !.id = id, !.failure = failure,
                                      !.bindingBefore = framebuffer]
    /\ UNCHANGED <<cpuTexture, textures, requested>>
    /\ UNCHANGED <<shaderVars, modelVars, renderVars>>

\* The render callback of the innermost write returns result, and with it
\* RenderTarget::write and Texture2D::write.
WriteEnd(result) ==
    /\ scopes # <<>>
    /\ LET scope == scopes[Len(scopes)]
       IN  /\ framebuffer' = write(scope.previous, framebuffer, result)
           /\ Issue(<<Call("bind_framebuffer", framebuffer'.color, <<framebuffer'.depth>>)>>)
           /\ lastOp' = [NoOp EXCEPT !.op = "write", !.id = scope.target,
                                     !.ok = (result = "Ok"),
                                     !.error = IF result = "Ok" THEN "" ELSE "callback",
                                     !.bindingBefore = scope.before]
    /\ scopes' = SubSeq(scopes, 1, Len(scopes) - 1)
    /\ UNCHANGED <<cpuTexture, textures, requested>>
    /\ UNCHANGED <<shaderVars, modelVars, renderVars>>

\* A draw call: it goes to the attachment bound at the time.
Draw ==
    /\ Issue(<<Call("draw", framebuffer.color, <<framebuffer.depth>>)>>)
    /\ lastOp' = [NoOp EXCEPT !.op = "draw", !.id = framebuffer.color,
                              !.bindingBefore = framebuffer]
    /\ UNCHANGED <<cpuTexture, textures, requested, framebuffer, scopes>>
    /\ UNCHANGED <<shaderVars, modelVars, renderVars>>

\* A call of read::<T> on texture id with a viewport at the origin: RenderTarget::
\* new(..)? and read_color, which fails for a viewport outside the texture.
Read(id, T, width, height, failure) ==
    /\ id \in Live \ Borrowed
    /\ failure = "new" => (width = 1 /\ height = 1)
    /\ LET inside == width <= textures[id].width /\ height <= textures[id].height
           ok == failure = "none" /\ inside
       IN  /\ Issue(IF ok THEN <<Call("read_pixels", id, <<0, 0, width, height, T>>)>>
                    ELSE <<>>)
           /\ lastOp' = [NoOp EXCEPT !.op = "read", !.id = id, !.T = T,
                                     !.len = IF ok THEN width * height ELSE 0,
                                     !.failure = failure, !.ok = ok,
                                     !.error = IF ok THEN ""
                                               ELSE IF failure = "none" THEN "OutOfBounds"
                                               ELSE "ContextError",
                                     !.before = textures[id],
                                     !.bindingBefore = framebuffer]
    /\ UNCHANGED <<cpuTexture, textures, requested, framebuffer, scopes>>
    /\ UNCHANGED <<shaderVars, modelVars, renderVars>>

Lens == 0..MaxLen

\* The failures of Texture2D::new that are cases for data of length len: the
\* fill's error check is reached only by data of the right length.
NewFailures(len) ==
    {"none", "generate", "set_parameters", "error_check"}
    \cup (IF check_data_length(cpuTexture.width, cpuTexture.height, 1,
                               size_of(cpuTexture.T), cpuTexture.T, len)
          THEN {"fill_error_check"} ELSE {})

\* One texture at a time, made for the CpuTexture.
TextureNext ==
    \/ \E f \in {"none", "generate", "set_parameters", "error_check"} :
          /\ Live = {}
          /\ NewEmpty(cpuTexture.width, cpuTexture.height, cpuTexture.mip_map_filter,
                      cpuTexture.T, f)
    \/ \E len \in Lens : \E f \in NewFailures(len) :
          /\ Live = {}
          /\ New(cpuTexture.width, cpuTexture.height, cpuTexture.mip_map_filter,
                 cpuTexture.T, len, f)
    \/ \E id \in TextureIds, T \in TextureDataTypes, len \in Lens,
          f \in {"none", "error_check"} : Fill(id, T, len, f)
    \/ \E id \in TextureIds, w \in 1..(MaxDim + 1), h \in 1..(MaxDim + 1),
          f \in {"none", "new"} : Read(id, requested[id].T, w, h, f)
    \/ \E id \in TextureIds, c \in ClearStates, f \in {"none", "new"} :
          (f = "new" => c = "none") /\ WriteBegin(id, c, f)
    \/ \E r \in {"Ok", "Err"} : WriteEnd(r)
    \/ Draw
    \/ \E id \in TextureIds : Drop(id)

\* Several textures, written to from within each other's callbacks.
TargetNext ==
    \/ \E f \in {"none", "generate"} :
          NewEmpty(cpuTexture.width, cpuTexture.height, cpuTexture.mip_map_filter,
                   cpuTexture.T, f)
    \/ \E id \in TextureIds, f \in {"none", "new"} : WriteBegin(id, "color", f)
    \/ \E r \in {"Ok", "Err"} : WriteEnd(r)
    \/ Draw
    \/ \E id \in TextureIds : Drop(id)

\* ------------------------------------------------------------------ instanced_model.rs

\* Program requests over a run.
MaxRequests == 4

\* Materials: three of the crate, one of a user whose forward and deferred bodies
\* are the same text, and one whose body the GLSL compiler rejects.
ForwardMaterials ==
    {"ColorMaterial", "DepthMaterial", "PhysicalMaterial", "CustomMaterial", "BrokenMaterial"}

DeferredMaterials == {"PhysicalMaterial", "CustomMaterial", "BrokenMaterial"}

UseColors(use_vertex_colors) ==
    IF use_vertex_colors THEN <<"#define", "USE_VERTEX_COLORS", "\n">> ELSE <<>>

\* ForwardMaterial::fragment_shader_source
fragment_shader_source(material, use_vertex_colors) ==
    UseColors(use_vertex_colors)
    \o (IF material = "CustomMaterial" THEN <<"custom.frag">>
        ELSE IF material = "BrokenMaterial" THEN <<"#error", "broken.frag">>
        ELSE <<material, "forward.frag">>)

\* DeferredMaterial::fragment_shader_source_deferred
fragment_shader_source_deferred(material, use_vertex_colors) ==
    UseColors(use_vertex_colors)
    \o (IF material = "CustomMaterial" THEN <<"custom.frag">>
        ELSE IF material = "BrokenMaterial" THEN <<"#error", "broken.frag">>
        ELSE <<material, "deferred.frag">>)

\* InstancedMesh::vertex_shader_source: the vertex shader with the attributes the
\* fragment shader asks for.
vertex_shader_source(fragment_source) ==
    (IF \E k \in 1..Len(fragment_source) : fragment_source[k] = "USE_VERTEX_COLORS"
     THEN <<"#define", "USE_COLORS", "\n">> ELSE <<>>)
    \o <<"instanced_mesh.vert">>

\* The GLSL compiler rejects a source with an #error directive.
compiles_ok(vertex_source, fragment_source) ==
    \A k \in 1..Len(fragment_source) : fragment_source[k] # "#error"

\* The key of the program cache: the two sources, one after the other.
program_key(vertex_source, fragment_source) == vertex_source \o fragment_source

AllFragmentSources ==
    {fragment_shader_source(m, c) : m \in ForwardMaterials, c \in BOOLEAN}
    \cup {fragment_shader_source_deferred(m, c) : m \in DeferredMaterials, c \in BOOLEAN}

AllKeys == {program_key(vertex_shader_source(f), f) : f \in AllFragmentSources}

\* A program compiled from the two sources at each call, without the cache.
program_compiled_anew(ctx, vertex_source, fragment_source) ==
    IF ~compiles_ok(vertex_source, fragment_source)
    THEN [ok |-> FALSE, compile |-> TRUE, handle |-> 0, ctx |-> ctx]
    ELSE [ok |-> TRUE, compile |-> TRUE, handle |-> Len(ctx.compiled) + 1,
          ctx |-> [cache |-> ctx.cache,
                   compiled |-> Append(ctx.compiled,
                                   [vertex |-> vertex_source, fragment |-> fragment_source])]]

\* Context::program up to its callback: the cached program of the key, or, for a
\* key not in the cache, the program compiled now and stored; a compile error is
\* returned and nothing stored.  ctx is [cache, compiled]: the entries of the cache
\* and, per program handle, the sources it was compiled from.
program(ctx, vertex_source, fragment_source) ==
    LET key == program_key(vertex_source, fragment_source)
        hit == {e \in ctx.cache : e.key = key}
        handle == Len(ctx.compiled) + 1
    IN  IF hit # {}
        THEN [ok |-> TRUE, compile |-> FALSE, handle |-> (CHOOSE e \in hit : TRUE).handle,
              ctx |-> ctx]
        ELSE IF ~compiles_ok(vertex_source, fragment_source)
        THEN [ok |-> FALSE, compile |-> TRUE, handle |-> 0, ctx |-> ctx]
        ELSE [ok |-> TRUE, compile |-> TRUE, handle |-> handle,
              ctx |-> [cache |-> ctx.cache \cup {[key |-> key, handle |-> handle]},
                       compiled |-> Append(ctx.compiled,
                                       [vertex |-> vertex_source,
                                        fragment |-> fragment_source])]]

\* A callback that goes on to mesh.render when its binding step failed.
Rendered_bind_unchecked(pass, material, vertex_source, fragment_source, got, failure, bind_step) ==
    [pass |-> pass, material |-> material,
     vertex |-> vertex_source, fragment |-> fragment_source,
     compile |-> got.compile, program |-> got.handle,
     events |-> IF ~got.ok THEN <<>> ELSE <<bind_step, "render">>,
     ok |-> got.ok /\ failure = "none",
     error |-> IF ~got.ok THEN "ShaderCompileError"
               ELSE IF failure = "none" THEN "" ELSE failure,
     ctx |-> got.ctx]

\* What a render call did: the program request and the events of its callback.
Rendered(pass, material, vertex_source, fragment_source, got, failure, bind_step) ==
    [pass |-> pass, material |-> material,
     vertex |-> vertex_source, fragment |-> fragment_source,
     compile |-> got.compile, program |-> got.handle,
     events |-> IF ~got.ok THEN <<>>
                ELSE IF failure = bind_step THEN <<bind_step>>
                ELSE <<bind_step, "render">>,
     ok |-> got.ok /\ failure = "none",
     error |-> IF ~got.ok THEN "ShaderCompileError"
               ELSE IF failure = "none" THEN "" ELSE failure,
     ctx |-> got.ctx]

\* A render_forward that compiles a program of its own at each call.
render_forward_uncached(ctx, color_buffer, material, failure) ==
    LET fragment_source == fragment_shader_source(material, color_buffer # "none")
        vertex_source == vertex_shader_source(fragment_source)
    IN  Rendered("forward", material, vertex_source, fragment_source,
                 program_compiled_anew(ctx, vertex_source, fragment_source),
                 failure, "use_uniforms")

\* Shadable::render_forward for InstancedModel: the program for the material's
\* fragment source and the vertex source that goes with it, from the context; in
\* the callback material.use_uniforms(program, camera)? and then mesh.render.
render_forward(ctx, color_buffer, material, failure) ==
    LET fragment_source == fragment_shader_source(material, color_buffer # "none")
        vertex_source == vertex_shader_source(fragment_source)
    IN  Rendered("forward", material, vertex_source, fragment_source,
                 program(ctx, vertex_source, fragment_source), failure, "use_uniforms")

\* Shadable::render_deferred for InstancedModel: the same with the material's
\* deferred fragment source, material.use_deferred(program)? and mesh.render.
render_deferred(ctx, color_buffer, material, failure) ==
    LET fragment_source == fragment_shader_source_deferred(material, color_buffer # "none")
        vertex_source == vertex_shader_source(fragment_source)
    IN  Rendered("deferred", material, vertex_source, fragment_source,
                 program(ctx, vertex_source, fragment_source), failure, "use_deferred")

NoRender ==
    [pass |-> "none", material |-> "", vertex |-> <<>>, fragment |-> <<>>,
     compile |-> FALSE, program |-> 0, events |-> <<>>, ok |-> TRUE, error |-> ""]

\* No InstancedModel, and an empty program cache.
RenderIdle ==
    /\ colorBuffer = "none"
    /\ programs = {}
    /\ compiledFrom = <<>>
    /\ compiledBy = <<>>
    /\ compiles = [key \in AllKeys |-> 0]
    /\ handed = [key \in AllKeys |-> {}]
    /\ requests = 0
    /\ lastRender = NoRender

\* An InstancedModel whose mesh has no color buffer, an opaque or a transparent
\* one, on a context with an empty program cache.
RenderInit ==
    /\ colorBuffer \in {"none", "opaque", "transparent"}
    /\ programs = {}
    /\ compiledFrom = <<>>
    /\ compiledBy = <<>>
    /\ compiles = [key \in AllKeys |-> 0]
    /\ handed = [key \in AllKeys |-> {}]
    /\ requests = 0
    /\ lastRender = NoRender

\* The state after a render call that did out.
AfterRender(out) ==
    LET key == program_key(out.vertex, out.fragment)
    IN  /\ programs' = out.ctx.cache
        /\ compiledFrom' = out.ctx.compiled
        /\ compiledBy' = IF Len(out.ctx.compiled) > Len(compiledFrom)
                         THEN Append(compiledBy, out.pass) ELSE compiledBy
        /\ compiles' = IF out.compile THEN [compiles EXCEPT ![key] = @ + 1] ELSE compiles
        /\ handed' = IF out.program # 0 THEN [handed EXCEPT ![key] = @ \cup {out.program}]
                     ELSE handed
        /\ requests' = requests + 1
        /\ lastRender' = [f \in DOMAIN NoRender |-> out[f]]
        /\ UNCHANGED colorBuffer
        /\ UNCHANGED <<shaderVars, modelVars, textureVars>>

\* A call of render_forward; failure names the step of the callback that fails.
RenderForward(material, failure) ==
    /\ requests < MaxRequests
    /\ AfterRender(render_forward([cache |-> programs, compiled |-> compiledFrom],
                                  colorBuffer, material, failure))

\* A call of render_deferred.
RenderDeferred(material, failure) ==
    /\ requests < MaxRequests
    /\ AfterRender(render_deferred([cache |-> programs, compiled |-> compiledFrom],
                                   colorBuffer, material, failure))

RenderNext ==
    \/ \E m \in ForwardMaterials, f \in {"none", "use_uniforms", "render"} :
          RenderForward(m, f)
    \/ \E m \in DeferredMaterials, f \in {"none", "use_deferred", "render"} :
          RenderDeferred(m, f)

\* ------------------------------------------------------------------ specifications

TextureIdle == TargetInit

InitTexture == ShaderIdle /\ ModelIdle /\ TextureInit /\ RenderIdle

SpecTexture == InitTexture /\ [][TextureNext]_vars

InitTarget == ShaderIdle /\ ModelIdle /\ TargetInit /\ RenderIdle

SpecTarget == InitTarget /\ [][TargetNext]_vars

InitRender == ShaderIdle /\ ModelIdle /\ TextureIdle /\ RenderInit

SpecRender == InitRender /\ [][RenderNext]_vars

InitShader == ShaderInit /\ ModelIdle /\ TextureIdle /\ RenderIdle

SpecShader == InitShader /\ [][ShaderNext]_vars

InitModel == ShaderIdle /\ ModelInit /\ TextureIdle /\ RenderIdle

SpecModel == InitModel /\ [][ModelNext]_vars

\* ------------------------------------------------------------------ properties

digit_value(d) == CHOOSE k \in 0..9 : Digits[k + 1] = d

\* The number a sequence of digit tokens writes.
RECURSIVE from_digits(_)
from_digits(ds) ==
    IF ds = <<>> THEN 0
    ELSE 10 * from_digits(SubSeq(ds, 1, Len(ds) - 1)) + digit_value(ds[Len(ds)])

\* The declarations among ds whose identifier is base followed by an index.
Indexed(ds, base) == {d \in ds : Head(d.name) = base /\ Len(d.name) > 1}

IndexOf(name) == from_digits(Tail(name))

\* The declarations ds name base with each index of 0..n-1 once, and base no other way.
DeclaresEach(ds, base, n) ==
    /\ Cardinality({d \in ds : Head(d.name) = base}) = n
    /\ {IndexOf(d.name) : d \in Indexed(ds, base)} = 0..(n - 1)

Differing(c, d) ==
    {k \in {"directional_lights", "spot_lights", "point_lights"} : c[k] # d[k]}

\* C5: a second composition with the same material body and the same three light
\* counts returns the same source, token for token, and one with a single count
\* changed returns a different source.
C5_CompositionDeterminedByCounts ==
    recomposed # <<>> =>
        /\ nextCall.lights = shaderArgs.lights => recomposed = shaderSource
        /\ Cardinality(Differing(nextCall.lights, shaderArgs.lights)) = 1
               => recomposed # shaderSource

C5_Witness_OneCountChanged ==
    /\ recomposed # <<>>
    /\ Differing(nextCall.lights, shaderArgs.lights) = {"point_lights"}
    /\ shaderArgs.lights.directional_lights > 0

C5_Witness_SameArguments ==
    /\ recomposed # <<>>
    /\ nextCall.lights = shaderArgs.lights
    /\ shaderArgs.lights.directional_lights > 10

\* C6: the composed source declares, for each directional light index 0..N_dir-1
\* and no other, one shadow-map sampler and one uniform block; the same for the
\* spot lights; for the point lights one uniform block per index 0..N_point-1; and
\* no sampler besides the directional and spot ones and those of the material body.
C6_DeclarationsPerLight ==
    shaderSource # <<>> =>
        LET samplers == sampler_declarations(shaderSource)
            blocks == block_declarations(shaderSource)
            lights == shaderArgs.lights
        IN  /\ DeclaresEach(samplers, "directionalShadowMap", lights.directional_lights)
            /\ DeclaresEach(blocks, "DirectionalLightUniform", lights.directional_lights)
            /\ DeclaresEach(samplers, "spotShadowMap", lights.spot_lights)
            /\ DeclaresEach(blocks, "SpotLightUniform", lights.spot_lights)
            /\ DeclaresEach(blocks, "PointLightUniform", lights.point_lights)
            /\ Cardinality(samplers) =
                   lights.directional_lights + lights.spot_lights
                   + Cardinality(sampler_declarations(shaderArgs.shader_addition))
            /\ Cardinality(blocks) =
                   lights.directional_lights + lights.spot_lights + lights.point_lights

\* Two directional lights and one point light, no spot light.
C6_Witness_TwoDirectionalOnePoint ==
    /\ shaderSource # <<>>
    /\ shaderArgs.lights = [directional_lights |-> 2, spot_lights |-> 0, point_lights |-> 1]

\* The calls of calculate_lighting's body: the statements "color.rgb += f(light, ..",
\* between the braces of the function.
LightingCalls(source) ==
    LET fn == CHOOSE p \in occurrences(source, <<"void", "calculate_lighting">>) : TRUE
        open == CHOOSE p \in fn..Len(source) :
                    source[p] = "{" /\ \A q \in fn..(p - 1) : source[q] # "{"
        close == CHOOSE p \in open..Len(source) :
                    source[p] = "}" /\ \A q \in open..(p - 1) : source[q] # "}"
    IN  {[at |-> p, callee |-> source[p + 2], light |-> identifier_at(source, p + 4)] :
            p \in {q \in occurrences(source, <<"color.rgb", "+=">>) : open < q /\ q < close}}

\* The call expected at place k (from 0) of the body for the given light counts.
ExpectedCall(lights, k) ==
    IF k < lights.directional_lights
    THEN [callee |-> "calculate_directional_light", base |-> "directionalLight", index |-> k]
    ELSE IF k < lights.directional_lights + lights.spot_lights
    THEN [callee |-> "calculate_spot_light", base |-> "spotLight",
          index |-> k - lights.directional_lights]
    ELSE [callee |-> "calculate_point_light", base |-> "pointLight",
          index |-> k - lights.directional_lights - lights.spot_lights]

\* C7: the body of calculate_lighting holds one accumulating call per light and no
\* other: the directional lights by ascending index, then the spot lights by
\* ascending index, then the point lights by ascending index.
C7_CallsInFixedOrder ==
    shaderSource # <<>> =>
        LET calls == LightingCalls(shaderSource)
            lights == shaderArgs.lights
        IN  /\ Cardinality(calls) =
                   lights.directional_lights + lights.spot_lights + lights.point_lights
            /\ Cardinality(calls) =
                   Cardinality({p \in 1..Len(shaderSource) : shaderSource[p] = "+="})
                   - Cardinality({p \in 1..Len(shaderArgs.shader_addition) :
                                     shaderArgs.shader_addition[p] = "+="})
            /\ \A c \in calls :
                   LET expected == ExpectedCall(lights, Cardinality({d \in calls : d.at < c.at}))
                   IN  /\ c.callee = expected.callee
                       /\ Head(c.light) = expected.base
                       /\ Len(c.light) > 1
                       /\ IndexOf(c.light) = expected.index

\* Lights of all three kinds, so that the order between the kinds shows.
C7_Witness_AllKinds ==
    /\ shaderSource # <<>>
    /\ shaderArgs.lights.directional_lights > 10
    /\ shaderArgs.lights.spot_lights > 0
    /\ shaderArgs.lights.point_lights > 0

BaseOfTexture(kind) == IF kind = "directional" THEN "directionalShadowMap" ELSE "spotShadowMap"

BaseOfBlock(kind) ==
    IF kind = "directional" THEN "DirectionalLightUniform"
    ELSE IF kind = "spot" THEN "SpotLightUniform" ELSE "PointLightUniform"

LightBases ==
    {"directionalShadowMap", "spotShadowMap", "DirectionalLightUniform",
     "SpotLightUniform", "PointLightUniform"}

Entries(seq) == {seq[k] : k \in 1..Len(seq)}

\* The lights of the three lists, by kind and place in the list.
LightsOf(lights) ==
    ({"directional"} \X (0..(lights.directional_lights - 1)))
    \cup ({"spot"} \X (0..(lights.spot_lights - 1)))
    \cup ({"point"} \X (0..(lights.point_lights - 1)))

\* C8: bound on a program composed for the same three counts, bind_lights succeeds,
\* binds for the light at place i of a list the names with index i, one shadow map
\* per directional and spot light and one uniform block per light, and the names it
\* binds are the shadow-map samplers and light uniform blocks the source declares.
C8_BindingMatchesComposition ==
    (bound.called /\ nextCall.lights = shaderArgs.lights) =>
        LET b == bound.result
            samplers == Names(Indexed(sampler_declarations(shaderSource), "directionalShadowMap")
                              \cup Indexed(sampler_declarations(shaderSource), "spotShadowMap"))
            blocks == Names(block_declarations(shaderSource))
        IN  /\ b.ok
            /\ \A e \in Entries(b.textures) :
                   /\ Head(e.name) = BaseOfTexture(e.light[1])
                   /\ Len(e.name) > 1 /\ IndexOf(e.name) = e.light[2]
            /\ \A e \in Entries(b.blocks) :
                   /\ Head(e.name) = BaseOfBlock(e.light[1])
                   /\ Len(e.name) > 1 /\ IndexOf(e.name) = e.light[2]
            /\ {e.light : e \in Entries(b.textures)} =
                   {l \in LightsOf(nextCall.lights) : l[1] # "point"}
            /\ {e.light : e \in Entries(b.blocks)} = LightsOf(nextCall.lights)
            /\ Len(b.textures) = Cardinality({e.light : e \in Entries(b.textures)})
            /\ Len(b.blocks) = Cardinality({e.light : e \in Entries(b.blocks)})
            /\ {e.name : e \in Entries(b.textures)} = samplers
            /\ {e.name : e \in Entries(b.blocks)} = blocks

C8_Witness_BoundAllKinds ==
    /\ bound.called
    /\ nextCall.lights = shaderArgs.lights
    /\ nextCall.lights.directional_lights > 10
    /\ nextCall.lights.spot_lights > 0
    /\ nextCall.lights.point_lights > 0

\* The places of the parts whose material index is out of range of the materials.
OutOfRange(model) ==
    {k \in 1..Len(model.parts) :
        /\ model.parts[k].material_index.some
        /\ model.parts[k].material_index.index >= model.materials}

\* C9: Model::new fails exactly when a part carries a material index out of range;
\* the error is MissingMaterial with the index and the name of the first such part;
\* otherwise the result has one pair per part, in part order, with the material of
\* the part's index, or the default material for a part without index.
C9_MissingMaterialNamesFirstPart ==
    modelResult.called =>
        LET r == modelResult.result
            parts == cpuModel.parts
            bad == OutOfRange(cpuModel)
        IN  /\ r.ok <=> bad = {}
            /\ ~r.ok =>
                   LET first == CHOOSE k \in bad : \A j \in bad : k <= j
                   IN  /\ r.error[1] = "MissingMaterial"
                       /\ from_digits(r.error[2]) = parts[first].material_index.index
                       /\ r.error[3] = parts[first].name
            /\ r.ok =>
                   /\ Len(r.gms) = Len(parts)
                   /\ \A k \in 1..Len(parts) :
                          /\ r.gms[k].geometry = <<"Mesh", k>>
                          /\ r.gms[k].material =
                                 IF parts[k].material_index.some
                                 THEN <<"from_cpu_material", parts[k].material_index.index>>
                                 ELSE <<"default">>

\* Two parts out of range with different names: the error names the first.
C9_Witness_TwoPartsOutOfRange ==
    /\ modelResult.called
    /\ ~modelResult.result.ok
    /\ Cardinality(OutOfRange(cpuModel)) = 2
    /\ cpuModel.parts[1].name # cpuModel.parts[2].name
    /\ cpuModel.parts[1].material_index.index > 9

C9_Witness_DefaultMaterial ==
    /\ modelResult.called
    /\ modelResult.result.ok
    /\ Len(cpuModel.parts) = 2
    /\ ~cpuModel.parts[1].material_index.some
    /\ cpuModel.parts[2].material_index.some

\* C2: when Texture2D::write returns, on every path, the framebuffer binding is the
\* one that was active when it was called: also when the render callback returned
\* an error, and also when the write was made from within another write's callback.
C2_WriteRestoresBinding ==
    lastOp.op = "write" => framebuffer = lastOp.bindingBefore

\* A write made inside the callback of a write to another texture, whose callback
\* failed: the outer texture is bound again.
C2_Witness_FailedCallbackNested ==
    /\ lastOp.op = "write"
    /\ ~lastOp.ok
    /\ lastOp.error = "callback"
    /\ lastOp.bindingBefore.color \in TextureIds
    /\ lastOp.bindingBefore.color # lastOp.id

\* C3: a fill with data of the texture's element type whose length is not
\* width * height fails with the size-mismatch error, issues no GPU call (no
\* upload, no mip generation), and leaves width, height, mip count and element
\* byte size as they were.
C3_FillRejectsWrongLength ==
    (/\ lastOp.op = "fill"
     /\ lastOp.T = requested[lastOp.id].T
     /\ lastOp.len # lastOp.before.width * lastOp.before.height)
    => /\ ~lastOp.ok
       /\ lastOp.error = "InvalidTextureLength"
       /\ glCalls = <<>>
       /\ textures[lastOp.id] = lastOp.before

\* A rejected fill of a texture with a mip chain.
C3_Witness_RejectedFill ==
    /\ lastOp.op = "fill"
    /\ lastOp.T = requested[lastOp.id].T
    /\ lastOp.len = lastOp.before.width * lastOp.before.height + 1
    /\ lastOp.before.number_of_mip_maps > 1
    /\ ~lastOp.ok

\* C4: a texture made without a mip filter has mip count 1; one made with a mip
\* filter has the mip count m with 2^(m-1) <= max(width, height) < 2^m; and that
\* stays so after every fill, write and read.
C4_MipCountFixedAtCreation ==
    \A id \in Live :
        LET m == textures[id].number_of_mip_maps
            largest == max(requested[id].width, requested[id].height)
        IN  /\ textures[id].width = requested[id].width
            /\ textures[id].height = requested[id].height
            /\ requested[id].mip_map_filter = "None" => m = 1
            /\ requested[id].mip_map_filter # "None" =>
                   (m >= 1 /\ 2 ^ (m - 1) <= largest /\ largest < 2 ^ m)

\* After a fill of a texture that is higher than wide and has a mip chain.
C4_Witness_AfterFill ==
    /\ lastOp.op = "fill"
    /\ lastOp.ok
    /\ textures[lastOp.id].width < textures[lastOp.id].height
    /\ textures[lastOp.id].number_of_mip_maps = 2

\* C10: every texture id the context handed out is deleted once when its Texture2D
\* is gone and not at all while the Texture2D is there (so also not while a write
\* borrows it); no id is deleted that was not handed out; and a drop returns no
\* error.  This covers the ids of constructions that failed after generate.
C10_TextureDeletedExactlyOnce ==
    /\ \A id \in TextureIds :
           /\ id \in Live => (id \in created /\ deletes[id] = 0)
           /\ (id \in created /\ id \notin Live) => deletes[id] = 1
           /\ id \notin created => deletes[id] = 0
    /\ Borrowed \subseteq Live
    /\ lastOp.op = "drop" => lastOp.ok

\* Texture2D::new failed because the fill rejected the data, after new_empty had
\* made the texture.
C10_Witness_NewFailedInFill ==
    /\ lastOp.op = "new"
    /\ ~lastOp.ok
    /\ lastOp.error = "InvalidTextureLength"
    /\ lastOp.id \in created
    /\ deletes[lastOp.id] = 1

C11_PassesNeverShare ==
    lastRender.program # 0 => compiledBy[lastRender.program] = lastRender.pass

\* C12: the element byte size of a texture stays that of the element type it was
\* made with, through every fill, write and read; and every fill whose data is of
\* another element type than that, or whose length is not width * height, fails.
C12_ElementTypeFixed ==
    /\ \A id \in Live : textures[id].data_byte_size = size_of(requested[id].T)
    /\ (/\ lastOp.op = "fill"
        /\ \/ lastOp.T # requested[lastOp.id].T
           \/ lastOp.len # lastOp.before.width * lastOp.before.height)
       => ~lastOp.ok

\* A fill with data of another element type of the same byte size and of length
\* width * height, which went through: the upload was issued.
C12_Witness_OtherTypeOfSameSize ==
    /\ lastOp.op = "fill"
    /\ lastOp.ok
    /\ lastOp.T # requested[lastOp.id].T
    /\ size_of(lastOp.T) = size_of(requested[lastOp.id].T)
    /\ lastOp.len = lastOp.before.width * lastOp.before.height
    /\ \E k \in 1..Len(glCalls) : glCalls[k].call = "tex_sub_image_2d"

\* The binding step of a pass: use_uniforms in the forward, use_deferred in the
\* deferred pass.
BindStep(pass) == IF pass = "forward" THEN "use_uniforms" ELSE "use_deferred"

\* C13: a render call whose program request fails with a compile error returns
\* that error, having bound nothing and drawn nothing; a call whose binding step
\* fails returns that error and draws nothing; and a call that draws has made its
\* binding step first, once, on the program it obtained.
C13_CompileErrorAbortsRender ==
    lastRender.pass # "none" =>
        /\ lastRender.program = 0 =>
               /\ ~lastRender.ok
               /\ lastRender.error = "ShaderCompileError"
               /\ lastRender.events = <<>>
        /\ lastRender.error = "ShaderCompileError" => lastRender.program = 0
        /\ lastRender.error = BindStep(lastRender.pass) =>
               /\ ~lastRender.ok
               /\ lastRender.events = <<BindStep(lastRender.pass)>>
        /\ (\E k \in 1..Len(lastRender.events) : lastRender.events[k] = "render") =>
               /\ lastRender.events = <<BindStep(lastRender.pass), "render">>
               /\ lastRender.error # BindStep(lastRender.pass)
        /\ lastRender.ok => lastRender.events = <<BindStep(lastRender.pass), "render">>

\* A compile error in a call that follows a call that drew with a cached program.
C13_Witness_CompileErrorAfterDraw ==
    /\ lastRender.error = "ShaderCompileError"
    /\ programs # {}
    /\ requests >= 2

\* A deferred call whose use_deferred failed.
C13_Witness_BindingFailed ==
    /\ lastRender.pass = "deferred"
    /\ lastRender.error = "use_deferred"
    /\ lastRender.program # 0

\* The binding a write to texture id makes: the texture as color attachment, no
\* depth attachment.
TargetOf(id) == Binding(id, "None")

\* C14: while writes are in progress, one inside the callback of the other, the
\* binding is that of the innermost write's target: a write made inside a callback
\* overrides the binding, and when it returns the binding is again that of the
\* write around it; each write keeps the binding that was active at its call; and
\* when no write is in progress the binding is the one from before the outermost
\* write, here the screen.
C14_WritesNestAsAStack ==
    /\ scopes # <<>> => framebuffer = TargetOf(scopes[Len(scopes)].target)
    /\ scopes = <<>> => framebuffer = Screen
    /\ \A k \in 1..Len(scopes) :
           scopes[k].previous = IF k = 1 THEN Screen ELSE TargetOf(scopes[k - 1].target)
    /\ \A j \in 1..Len(scopes), k \in 1..Len(scopes) :
           j # k => scopes[j].target # scopes[k].target
    /\ lastOp.op = "write" =>
           framebuffer = IF scopes = <<>> THEN Screen
                         ELSE TargetOf(scopes[Len(scopes)].target)

\* The innermost of three nested writes has returned, the two around it are
\* still in progress.
C14_Witness_InnerOfThreeReturned ==
    /\ lastOp.op = "write"
    /\ Len(scopes) = 2
    /\ lastOp.id \notin {scopes[1].target, scopes[2].target}
    /\ framebuffer = TargetOf(scopes[2].target)

\* The places of the calls named name among the GPU calls of the last operation.
Places(name) == {k \in 1..Len(glCalls) : glCalls[k].call = name}

\* C15: a fill that fails the length validation has issued no GPU call; a
\* successful fill has uploaded the data once, as the sub-image of level 0 at
\* offset (0, 0) of size width x height, and after that has generated the mip maps,
\* once, when the mip count is above 1, and not at all when it is 1; a texture made
\* with mip count 1 was made without a mip generation and with no mip filter among
\* its sampling parameters.
C15_FillValidatesUploadsThenMips ==
    /\ (lastOp.op = "fill" /\ lastOp.error = "InvalidTextureLength") => glCalls = <<>>
    /\ (lastOp.op = "fill" /\ lastOp.ok) =>
           LET texture == lastOp.before
               uploads == Places("tex_sub_image_2d")
               mips == Places("generate_mipmap")
           IN  /\ Cardinality(uploads) = 1
               /\ \A k \in uploads :
                      /\ glCalls[k].id = lastOp.id
                      /\ SubSeq(glCalls[k].args, 1, 5) =
                             <<0, 0, 0, texture.width, texture.height>>
                      /\ k > 1 /\ glCalls[k - 1] = Call("bind_texture", lastOp.id, <<>>)
               /\ Cardinality(mips) = IF texture.number_of_mip_maps > 1 THEN 1 ELSE 0
               /\ \A m \in mips : glCalls[m].id = lastOp.id /\ \A k \in uploads : k < m
    /\ (lastOp.op \in {"new_empty", "new"} /\ lastOp.ok
        /\ textures[lastOp.id].number_of_mip_maps = 1) =>
           /\ Places("generate_mipmap") = {}
           /\ \A k \in Places("set_parameters") : glCalls[k].args = <<"None">>
           /\ Places("set_parameters") # {}

\* A successful fill of a texture that was asked for with a mip filter and has
\* one level.
C15_Witness_FilledOneLevelWithFilter ==
    /\ lastOp.op = "fill"
    /\ lastOp.ok
    /\ lastOp.before.number_of_mip_maps = 1
    /\ requested[lastOp.id].mip_map_filter # "None"

\* A successful fill of a texture with two levels.
C15_Witness_FilledTwoLevels ==
    /\ lastOp.op = "fill"
    /\ lastOp.ok
    /\ lastOp.before.number_of_mip_maps = 2

====
